---- MODULE Spec2Model ----
(***************************************************************************)
(* Model of liveweb/filetools.py: SpyFile (a tee over a readable stream    *)
(* with a cumulative size limit) and MemFile (a StringIO that switches to  *)
(* a temporary file when maxsize is crossed).                              *)
(*                                                                         *)
(* Byte strings are sequences of one-byte values; a byte is written as a   *)
(* short string ("a", "LF" for the line terminator, "NUL" for a zero       *)
(* byte).  An optional value (Python None or a value) is a sequence of     *)
(* length 0 or 1.                                                          *)
(***************************************************************************)
EXTENDS Integers, Sequences, FiniteSets, TLC

\* ------------------------------------------------------------------ bounds
MaxSrc == 3        \* longest source stream wrapped by a SpyFile
MaxLimit == 3      \* largest max_size given to a SpyFile
MaxRead == 2       \* largest size argument passed to read/readline

SrcBytes == {"a", "LF"}

Min(a, b) == IF a < b THEN a ELSE b

SeqsUpTo(S, n) == UNION {[1..k -> S] : k \in 0..n}

\* The size arguments of read/readline: -1 stands for "no argument".
ReadSizes == (0..MaxRead) \cup {-1}

\* ------------------------------------------------------------------ state
\* SpyFile
VARIABLES
  fileobj,       \* SpyFile.fileobj: the data source, [data, pos]
  buf,           \* SpyFile.buf: content of the spy object (the sink)
  max_size,      \* SpyFile.max_size: <<>> for None, <<m>> for the integer m
  current_size,  \* SpyFile.current_size
  op,            \* history: name of the last call ("none" before any call)
  req,           \* history: size argument of the last call
  got,           \* history: text the last call obtained from the source
  ret,           \* history: <<text>> if the last call returned text, <<>> if
                 \*          it raised (or before any call)
  outcome,       \* history: "none", "returned", "raised" (SizeLimitExceeded)
                 \*          or "failed" (the failure of the source)
  returned,      \* history: concatenation of all values returned so far
  everRaised     \* history: some call so far raised SizeLimitExceeded

spyVars == <<fileobj, buf, max_size, current_size, op, req, got, ret,
             outcome, returned, everRaised>>

\* MemFile
VARIABLES
  maxsize,     \* MemFile.maxsize
  m_fileobj,   \* MemFile._fileobj: [type, value, pos, name, last, closed]
               \*   type: "StringIO" or "file"; value: the content; pos: the
               \*   stream position; name: the name attribute; last: the last
               \*   stream operation ("none", "write", "read", "readeof",
               \*   "seek"), which decides what stdio guarantees for the next;
               \*   closed: the stream has been closed
  fs,          \* the directory entries that exist on the filesystem
  switches,    \* history: number of executions of _switch_to_disk
  copied,      \* history: <<content>> copied to disk by _switch_to_disk
  trigger,     \* history: <<data>> of the write that switched to disk
  written,     \* history: concatenation of all data passed to write
  mop,         \* history: name of the last MemFile call
  readout,     \* history: result of the last call if a delegated read
  told,        \* history: result of the last call if a delegated tell
  closed       \* history: how the last call ended if a close(): "ok" or
               \*          "OSError" ("none" after any other call)

memVars == <<maxsize, m_fileobj, fs, switches, copied, trigger, written,
             mop, readout, told, closed>>

\* SpyFile: its source and sink as objects, and line iteration
VARIABLES
  srcClosed,   \* the source (SpyFile.fileobj) has been closed
  sink,        \* the object SpyFile.buf refers to: [id, kind, limit, obj]
               \*   id: 0 for the sink of __init__, k for the argument of the
               \*   k-th change_spy; kind: "StringIO" or "MemFile"; limit:
               \*   maxsize of a MemFile; obj: [fileobj, fs, switches, copied,
               \*   trigger] as for a MemFile, fileobj being the stream that
               \*   holds the content
  detached,    \* history: the sinks change_spy replaced, as it left them
  swaps,       \* history: number of calls of change_spy
  swapped,     \* history: how the last call ended if a change_spy(): "ok" or
               \*          "OSError" ("none" after any other call)
  srcFailed,   \* history: the source failed in the last call
  yields,      \* history: the lines yielded by the generators of __iter__
  iter         \* state of the generator of __iter__: "none", "active",
               \* "done" (it returned) or "failed" (it raised)

xVars == <<srcClosed, sink, detached, swaps, swapped, srcFailed, yields,
           iter>>

\* fileiter
VARIABLES
  it_file,     \* the file argument: [data, pos, full]; full: read(n) hands
               \*   back n bytes whenever n are left (a regular file)
  it_size,     \* the size argument
  chunk_size,  \* the chunk_size argument
  completed,   \* the local variable completed
  it_content,  \* the local variable content
  nbytes,      \* the local variable nbytes
  it_pc,       \* where the generator is: "start", "yield" (suspended at the
               \* yield) or "done" (it returned)
  yielded      \* history: the chunks yielded so far

itVars == <<it_file, it_size, chunk_size, completed, it_content, nbytes,
            it_pc, yielded>>

vars == <<spyVars, memVars, xVars, itVars>>

\* What the operations of a MemFile leave alone.
nonMemVars == <<spyVars, xVars, itVars>>

\* Python truth value of max_size (None and 0 are false).
Truthy(m) == m # <<>> /\ m[1] # 0

\* The limit compared with >= instead of >.
check_size_ge(m, size) == Truthy(m) /\ size >= m[1]

\* _check_size: TRUE when SizeLimitExceeded is raised.
check_size(m, size) == Truthy(m) /\ size > m[1]

\* What is left of the source after its position.
Rest(f) == SubSeq(f.data, f.pos + 1, Len(f.data))

\* fileobj.read(n): the texts the source may hand back.  Without a size (or
\* with a negative one) the source is read to its end; with a size n a
\* stream may return fewer than n bytes, but at least one unless it is at
\* its end or n = 0.
ReadTexts(f, n) ==
  LET rem == Len(f.data) - f.pos IN
  IF n < 0 THEN {Rest(f)}
  ELSE IF n = 0 \/ rem = 0 THEN {<<>>}
  ELSE {SubSeq(f.data, f.pos + 1, f.pos + k) : k \in 1..Min(n, rem)}

\* Length of the first line of s, terminator included (Len(s) if none).
RECURSIVE LineLen(_)
LineLen(s) ==
  IF s = <<>> THEN 0
  ELSE IF Head(s) = "LF" THEN 1
  ELSE 1 + LineLen(Tail(s))

\* fileobj.readline(n): up to and including the next line terminator, at
\* most n bytes when a non-negative size is given.
ReadLineText(f, n) ==
  LET l == LineLen(Rest(f))
      k == IF n < 0 THEN l ELSE Min(n, l)
  IN SubSeq(f.data, f.pos + 1, f.pos + k)

\* The source after handing back text.
Advance(f, text) == [f EXCEPT !.pos = f.pos + Len(text)]

\* The sink overwritten instead of appended to.
BufWriteOver(b, text) == text

\* The last byte of the text not written.
BufWriteShort(b, text) == b \o SubSeq(text, 1, Len(text) - 1)

\* self.buf.write(text)
BufWrite(b, text) == b \o text

\* The counter assigned instead of incremented.
AddSizeAssign(size, text) == Len(text)

\* self.current_size += len(text)
AddSize(size, text) == size + Len(text)

\* The limit checked before the text is recorded: a call that trips the
\* limit leaves the sink and the counter as they were.
SpyCallCheckFirst(name, n, text) ==
  /\ fileobj' = Advance(fileobj, text)
  /\ op' = name
  /\ req' = n
  /\ got' = text
  /\ IF check_size(max_size, AddSize(current_size, text))
     THEN /\ outcome' = "raised"
          /\ ret' = <<>>
          /\ everRaised' = TRUE
          /\ UNCHANGED <<buf, current_size, returned>>
     ELSE /\ outcome' = "returned"
          /\ ret' = <<text>>
          /\ buf' = BufWrite(buf, text)
          /\ current_size' = AddSize(current_size, text)
          /\ returned' = returned \o text
          /\ everRaised' = everRaised
  /\ UNCHANGED <<max_size, memVars, itVars>>

\* Lines 53-56 / 60-63: record text, count it, check the limit, return it.
SpyCall(name, n, text) ==
  /\ fileobj' = Advance(fileobj, text)
  /\ buf' = BufWrite(buf, text)
  /\ current_size' = AddSize(current_size, text)
  /\ op' = name
  /\ req' = n
  /\ got' = text
  /\ IF check_size(max_size, current_size')
     THEN /\ outcome' = "raised"
          /\ ret' = <<>>
          /\ returned' = returned
          /\ everRaised' = TRUE
     ELSE /\ outcome' = "returned"
          /\ ret' = <<text>>
          /\ returned' = returned \o text
          /\ everRaised' = everRaised
  /\ UNCHANGED <<max_size, memVars, itVars>>

\* SpyFile.__init__ over a fresh source out of sources, with no max_size or
\* one up to most.
SpyNew(sources, most) ==
  /\ \E s \in sources : fileobj = [data |-> s, pos |-> 0]
  /\ buf = <<>>
  /\ max_size \in {<<>>} \cup {<<m>> : m \in 0..most}
  /\ current_size = 0
  /\ op = "none"
  /\ req = -1
  /\ got = <<>>
  /\ ret = <<>>
  /\ outcome = "none"
  /\ returned = <<>>
  /\ everRaised = FALSE

SpyInit == SpyNew(SeqsUpTo(SrcBytes, MaxSrc), MaxLimit)

\* A SpyFile that is not used (the state of the SpyFile variables in the
\* specifications of MemFile).
SpyIdle ==
  /\ fileobj = [data |-> <<>>, pos |-> 0]
  /\ buf = <<>>
  /\ max_size = <<>>
  /\ current_size = 0
  /\ op = "none"
  /\ req = -1
  /\ got = <<>>
  /\ ret = <<>>
  /\ outcome = "none"
  /\ returned = <<>>
  /\ everRaised = FALSE

\* ---------------------------------------------------------------- MemFile
MaxT == 2          \* largest maxsize given to a MemFile
MaxChunk == 2      \* longest chunk passed to write
MaxLines == 2      \* longest list passed to writelines
MaxLen == 2        \* longest content of a backing that is also sought and read
MaxOnly == 3       \* longest content of a backing that is only written to
MaxPos == 1        \* largest seek target

MemBytes == {"a", "b"}

Chunks == SeqsUpTo(MemBytes, MaxChunk)

\* Name of the directory entry a temporary file is created under, and the
\* name attribute of the file object tempfile.TemporaryFile returns: on
\* POSIX the entry is unlinked at once and the object comes from os.fdopen.
TmpName == "memfile-0.tmp"
FdopenName == "<fdopen>"

\* The part of a MemFile that write and close work on.
Self == [fileobj |-> m_fileobj, fs |-> fs, switches |-> switches,
         copied |-> copied, trigger |-> trigger]

Become(self) ==
  /\ m_fileobj' = self.fileobj
  /\ fs' = self.fs
  /\ switches' = self.switches
  /\ copied' = self.copied
  /\ trigger' = self.trigger

\* StringIO()
NewStringIO ==
  [type |-> "StringIO", value |-> <<>>, pos |-> 0, name |-> "", last |-> "none",
   closed |-> FALSE]

\* isinstance(self._fileobj, file) is never true: the type test of a
\* platform whose temporary file is a wrapper object.
in_memory_always(f) == TRUE

\* MemFile.in_memory
in_memory(f) == f.type # "file"

\* value with data stored at position pos; the gap left by a position past
\* the end is filled with zero bytes.
StoreAt(value, pos, data) ==
  LET keep == Min(pos, Len(value))
      pad == [i \in 1..(pos - keep) |-> "NUL"]
  IN SubSeq(value, 1, keep) \o pad \o data
       \o SubSeq(value, pos + Len(data) + 1, Len(value))

\* The data stored at the end of the file whatever the position is.
StreamWriteAppend(f, data) ==
  [f EXCEPT !.value = f.value \o data,
            !.pos = Len(f.value) + Len(data),
            !.last = "write"]

\* write of the backing stream at its position.  A StringIO pads up to its
\* position even for empty data; a file is not touched by an empty write.
StreamWrite(f, data) ==
  IF f.type = "file" /\ data = <<>>
  THEN [f EXCEPT !.last = "write"]
  ELSE [f EXCEPT !.value = StoreAt(f.value, f.pos, data),
                 !.pos = f.pos + Len(data),
                 !.last = "write"]

\* The backings a write can leave.  On a file, output directly after an
\* input that did not meet end-of-file, with no positioning in between, is
\* undefined in stdio: the data lands at the stream position or where the
\* read-ahead left the descriptor, the end of the file.
StreamWrites(f, data) ==
  IF f.type = "file" /\ f.last = "read" /\ data # <<>>
  THEN {StreamWrite(f, data), StreamWriteAppend(f, data)}
  ELSE {StreamWrite(f, data)}

\* A temporary file whose directory entry is left in place.
open_tmpfile_named(self) ==
  [self EXCEPT !.fs = self.fs \cup {TmpName},
               !.fileobj = [type |-> "file", value |-> <<>>, pos |-> 0,
                            name |-> FdopenName, last |-> "none",
                            closed |-> FALSE]]

\* MemFile._open_tmpfile: tempfile.TemporaryFile creates the file under a
\* fresh name, unlinks the name and returns os.fdopen of the descriptor.
open_tmpfile(self) ==
  [self EXCEPT !.fs = (self.fs \cup {TmpName}) \ {TmpName},
               !.fileobj = [type |-> "file", value |-> <<>>, pos |-> 0,
                            name |-> FdopenName, last |-> "none",
                            closed |-> FALSE]]

\* The temporary file adopted without the content of the memory buffer.
switch_to_disk_empty(self) ==
  LET content == self.fileobj.value
      opened == open_tmpfile(self)
  IN [opened EXCEPT !.switches = self.switches + 1,
                    !.copied = <<content>>]

\* MemFile._switch_to_disk
switch_to_disk(self) ==
  LET content == self.fileobj.value
      opened == open_tmpfile(self)
  IN [opened EXCEPT !.fileobj = StreamWrite(opened.fileobj, content),
                    !.switches = self.switches + 1,
                    !.copied = <<content>>]

\* The condition of MemFile.write on the length of the content instead of
\* the stream position.
must_switch_len(f, data, limit) ==
  in_memory(f) /\ Len(f.value) + Len(data) > limit

\* The condition of MemFile.write with >= for >.
must_switch_ge(f, data, limit) ==
  in_memory(f) /\ f.pos + Len(data) >= limit

\* The condition of MemFile.write: in memory and tell() + len(data) > maxsize
must_switch(f, data, limit) ==
  in_memory(f) /\ f.pos + Len(data) > limit

\* MemFile.write: the states it can leave self in.
write(self, data, limit) ==
  LET s1 == IF must_switch(self.fileobj, data, limit)
            THEN [switch_to_disk(self) EXCEPT !.trigger = <<data>>]
            ELSE self
  IN {[s1 EXCEPT !.fileobj = g] : g \in StreamWrites(s1.fileobj, data)}

\* MemFile.writelines: write applied to each line in order.
RECURSIVE writelines(_, _, _)
writelines(self, lines, limit) ==
  IF lines = <<>> THEN {self}
  ELSE UNION {writelines(s1, Tail(lines), limit) :
                s1 \in write(self, Head(lines), limit)}

\* Concatenation of a list of chunks.
RECURSIVE Concat(_)
Concat(lines) == IF lines = <<>> THEN <<>> ELSE Head(lines) \o Concat(Tail(lines))

\* The history of a call that hands nothing back.
NoResult ==
  /\ readout' = <<>>
  /\ told' = 0
  /\ closed' = "none"

\* The lists of at most n chunks of total length at most room.
RECURSIVE LinesUpTo(_, _)
LinesUpTo(n, room) ==
  IF n = 0 THEN {<<>>}
  ELSE {<<>>} \cup
       UNION {{<<c>> \o l : l \in LinesUpTo(n - 1, room - Len(c))} :
                c \in {d \in Chunks : Len(d) <= room}}

\* The content stays within cap bytes (a bound of the model).
Fits(self, cap) == Len(self.fileobj.value) <= cap

\* MemFile.write(data), while at most cap bytes are written in all.
MemWriteUpTo(cap) ==
  \E data \in Chunks :
    /\ Len(written) + Len(data) <= cap
    /\ \E s1 \in write(Self, data, maxsize) :
         /\ Fits(s1, cap)
         /\ Become(s1)
    /\ written' = written \o data
    /\ mop' = "write"
    /\ NoResult
    /\ UNCHANGED maxsize
    /\ UNCHANGED nonMemVars

\* MemFile.writelines(lines), while at most cap bytes are written in all.
MemWritelinesUpTo(cap) ==
  \E lines \in LinesUpTo(MaxLines, cap - Len(written)) :
    /\ \E s1 \in writelines(Self, lines, maxsize) :
         /\ Fits(s1, cap)
         /\ Become(s1)
    /\ written' = written \o Concat(lines)
    /\ mop' = "writelines"
    /\ NoResult
    /\ UNCHANGED maxsize
    /\ UNCHANGED nonMemVars

\* write and writelines among the other operations of a MemFile.
MemWrite == MemWriteUpTo(MaxLen)

MemWritelines == MemWritelinesUpTo(MaxLen)

\* write and writelines of a MemFile that is only written to.
MemWriteOnly == MemWriteUpTo(MaxOnly)

MemWritelinesOnly == MemWritelinesUpTo(MaxOnly)

\* seek(p) of the backing stream (from the start of the stream).
StreamSeek(f, p) == [f EXCEPT !.pos = p, !.last = "seek"]

\* MemFile.seek(p), delegated by __getattr__
MemSeek ==
  \E p \in 0..MaxPos :
    /\ m_fileobj' = StreamSeek(m_fileobj, p)
    /\ mop' = "seek"
    /\ NoResult
    /\ UNCHANGED <<maxsize, fs, switches, copied, trigger, written>>
    /\ UNCHANGED nonMemVars

\* read(n) of the backing stream: [data, fileobj] for each way it can end.
\* It reads from the position to the end of the content, at most n bytes
\* when n >= 0.  On a file, input directly after output with no positioning
\* in between is undefined in stdio: it may also find nothing.
StreamReads(f, n) ==
  LET avail == IF f.pos >= Len(f.value) THEN 0 ELSE Len(f.value) - f.pos
      k == IF n < 0 THEN avail ELSE Min(n, avail)
      hitEnd == n # 0 /\ (n < 0 \/ k < n)
      normal == [data |-> SubSeq(f.value, f.pos + 1, f.pos + k),
                 fileobj |-> [f EXCEPT !.pos = f.pos + k,
                                       !.last = IF hitEnd THEN "readeof"
                                                ELSE "read"]]
      nothing == [data |-> <<>>, fileobj |-> [f EXCEPT !.last = "readeof"]]
  IN IF f.type = "file" /\ f.last = "write" /\ n # 0
     THEN {normal, nothing}
     ELSE {normal}

\* MemFile.read(n), delegated by __getattr__
MemRead ==
  \E n \in ReadSizes : \E r \in StreamReads(m_fileobj, n) :
    /\ m_fileobj' = r.fileobj
    /\ readout' = r.data
    /\ told' = 0
    /\ closed' = "none"
    /\ mop' = "read"
    /\ UNCHANGED <<maxsize, fs, switches, copied, trigger, written>>
    /\ UNCHANGED nonMemVars

\* MemFile.tell(), delegated by __getattr__
MemTell ==
  /\ told' = m_fileobj.pos
  /\ readout' = <<>>
  /\ closed' = "none"
  /\ mop' = "tell"
  /\ UNCHANGED <<maxsize, m_fileobj, fs, switches, copied, trigger, written>>
  /\ UNCHANGED nonMemVars

\* os.unlink(name): [fs, error]
unlink(files, name) ==
  IF name \in files
  THEN [fs |-> files \ {name}, error |-> FALSE]
  ELSE [fs |-> files, error |-> TRUE]

\* MemFile.close: unlinks the name of the file object when on disk.  The
\* file object itself is left open.  [self, error]: the instance afterwards
\* and whether os.unlink raised OSError.
close(self) ==
  IF ~in_memory(self.fileobj)
  THEN LET u == unlink(self.fs, self.fileobj.name)
       IN [self |-> [self EXCEPT !.fs = u.fs], error |-> u.error]
  ELSE [self |-> self, error |-> FALSE]

\* MemFile.close()
MemClose ==
  /\ LET r == close(Self)
     IN /\ fs' = r.self.fs
        /\ closed' = IF r.error THEN "OSError" ELSE "ok"
  /\ mop' = "close"
  /\ readout' = <<>>
  /\ told' = 0
  /\ UNCHANGED <<maxsize, m_fileobj, switches, copied, trigger, written>>
  /\ UNCHANGED nonMemVars

\* MemFile.__init__.  The filesystem holds no temporary file of the
\* instance; a file called "<fdopen>" may exist in the working directory.
MemInit ==
  /\ maxsize \in 0..MaxT
  /\ m_fileobj = NewStringIO
  /\ fs \in {{}, {FdopenName}}
  /\ switches = 0
  /\ copied = <<>>
  /\ trigger = <<>>
  /\ written = <<>>
  /\ mop = "none"
  /\ readout = <<>>
  /\ told = 0
  /\ closed = "none"

\* A MemFile that is not used (the state of the MemFile variables in the
\* specification of SpyFile).
MemIdle ==
  /\ maxsize = 0
  /\ m_fileobj = NewStringIO
  /\ fs = {}
  /\ switches = 0
  /\ copied = <<>>
  /\ trigger = <<>>
  /\ written = <<>>
  /\ mop = "none"
  /\ readout = <<>>
  /\ told = 0
  /\ closed = "none"

\* ------------------------------------------------ SpyFile and its objects
MaxSwaps == 1      \* most calls of change_spy on a SpyFile
MaxSinkLimit == 0  \* largest maxsize of a MemFile used as a sink
MaxObjSrc == 2     \* longest source of a SpyFile whose sink is replaced
MaxObjLimit == 1   \* largest max_size of a SpyFile whose sink is replaced

\* A fresh object to mirror to: StringIO() or MemFile(maxsize = limit).  calls
\* lists the methods change_spy has called on it.
NewSink(id, kind, limit) ==
  [id |-> id, kind |-> kind, limit |-> limit, calls |-> <<>>,
   obj |-> [fileobj |-> NewStringIO, fs |-> {}, switches |-> 0,
            copied |-> <<>>, trigger |-> <<>>]]

\* The objects given as a sink, to __init__ (spy) or to change_spy (fileobj).
NewSinks(id) ==
  {NewSink(id, "StringIO", 0)}
    \cup {NewSink(id, "MemFile", l) : l \in 0..MaxSinkLimit}

\* What can be read back from a sink.
SinkContent(snk) == snk.obj.fileobj.value

\* self.buf.write(text): the states it can leave the sink in.
SinkWrites(snk, text) ==
  IF snk.kind = "MemFile"
  THEN {[snk EXCEPT !.obj = o] : o \in write(snk.obj, text, snk.limit)}
  ELSE {[snk EXCEPT !.obj.fileobj = g] :
          g \in StreamWrites(snk.obj.fileobj, text)}

\* self.buf.flush(); self.buf.close(): [sink, error].  A StringIO is closed;
\* a MemFile runs MemFile.close, which may raise OSError.
SinkFlushClose(snk) ==
  LET called == [snk EXCEPT !.calls = <<"flush", "close">>]
  IN IF snk.kind = "MemFile"
     THEN LET r == close(snk.obj)
          IN [sink |-> [called EXCEPT !.obj = r.self], error |-> r.error]
     ELSE [sink |-> [called EXCEPT !.obj.fileobj.closed = TRUE],
           error |-> FALSE]

\* What read and readline do to the sink object, and what they leave alone.
Mirror(text) ==
  /\ \E s1 \in SinkWrites(sink, text) : sink' = s1
  /\ swapped' = "none"
  /\ srcFailed' = FALSE
  /\ UNCHANGED <<srcClosed, detached, swaps>>

\* SpyFile.read(n) on an open source.
SpyRead ==
  /\ ~srcClosed
  /\ \E n \in ReadSizes : \E text \in ReadTexts(fileobj, n) :
       /\ SpyCall("read", n, text)
       /\ Mirror(text)
       /\ UNCHANGED <<yields, iter>>

\* SpyFile.readline(n) on an open source.
SpyReadline ==
  /\ ~srcClosed
  /\ \E n \in ReadSizes :
       /\ SpyCall("readline", n, ReadLineText(fileobj, n))
       /\ Mirror(ReadLineText(fileobj, n))
       /\ UNCHANGED <<yields, iter>>

\* The failure of the source taken for an empty read.
SpyFailureSwallowed(name, n) ==
  /\ SpyCall(name, n, <<>>)
  /\ \E s1 \in SinkWrites(sink, <<>>) : sink' = s1
  /\ swapped' = "none"
  /\ srcFailed' = TRUE
  /\ UNCHANGED <<srcClosed, detached, swaps, yields, iter>>

\* Lines 52 / 59 raise: fileobj.read or fileobj.readline fails (always on a
\* closed source, at any time on an open one), and the exception leaves
\* read or readline at once.
SpyFailure(name, n) ==
  /\ fileobj' = fileobj
  /\ op' = name
  /\ req' = n
  /\ got' = <<>>
  /\ ret' = <<>>
  /\ outcome' = "failed"
  /\ swapped' = "none"
  /\ srcFailed' = TRUE
  /\ UNCHANGED <<buf, max_size, current_size, returned, everRaised>>
  /\ UNCHANGED <<srcClosed, sink, detached, swaps, yields, iter>>
  /\ UNCHANGED <<memVars, itVars>>

\* SpyFile.read(n) or SpyFile.readline(n) when the source fails.
SpyFails ==
  \E name \in {"read", "readline"}, n \in ReadSizes : SpyFailure(name, n)

\* close() closing the source and the sink.
SpyCloseBoth ==
  /\ srcClosed' = TRUE
  /\ sink' = [sink EXCEPT !.obj.fileobj.closed = TRUE]
  /\ op' = "close"
  /\ req' = -1
  /\ got' = <<>>
  /\ ret' = <<>>
  /\ outcome' = "returned"
  /\ swapped' = "none"
  /\ srcFailed' = FALSE
  /\ UNCHANGED <<fileobj, buf, max_size, current_size, returned, everRaised>>
  /\ UNCHANGED <<detached, swaps, yields, iter>>
  /\ UNCHANGED <<memVars, itVars>>

\* SpyFile.close()
SpyClose ==
  /\ srcClosed' = TRUE
  /\ op' = "close"
  /\ req' = -1
  /\ got' = <<>>
  /\ ret' = <<>>
  /\ outcome' = "returned"
  /\ swapped' = "none"
  /\ srcFailed' = FALSE
  /\ UNCHANGED <<fileobj, buf, max_size, current_size, returned, everRaised>>
  /\ UNCHANGED <<sink, detached, swaps, yields, iter>>
  /\ UNCHANGED <<memVars, itVars>>

\* SpyFile.change_spy(fileobj) with a fresh object: when self.buf.close()
\* raises, self.buf = fileobj is not reached.
SpyChangeSpy ==
  /\ swaps < MaxSwaps
  /\ \E new \in NewSinks(swaps + 1) :
       LET r == SinkFlushClose(sink)
       IN IF r.error
          THEN /\ sink' = r.sink
               /\ detached' = detached
               /\ swapped' = "OSError"
               /\ outcome' = "failed"
          ELSE /\ sink' = [new EXCEPT !.obj.fs = r.sink.obj.fs]
               /\ detached' = Append(detached, r.sink)
               /\ swapped' = "ok"
               /\ outcome' = "returned"
  /\ buf' = SinkContent(sink')
  /\ swaps' = swaps + 1
  /\ srcFailed' = FALSE
  /\ op' = "change_spy"
  /\ req' = -1
  /\ got' = <<>>
  /\ ret' = <<>>
  /\ UNCHANGED <<fileobj, max_size, current_size, returned, everRaised>>
  /\ UNCHANGED <<srcClosed, yields, iter>>
  /\ UNCHANGED <<memVars, itVars>>

\* The loop of __iter__ with the test for the empty line after the yield.
SpyIterNextYieldFirst ==
  /\ iter \in {"none", "active"}
  /\ ~srcClosed
  /\ LET line == ReadLineText(fileobj, -1)
     IN /\ SpyCall("readline", -1, line)
        /\ Mirror(line)
        /\ IF outcome' = "raised"
           THEN iter' = "failed" /\ yields' = yields
           ELSE /\ yields' = Append(yields, line)
                /\ iter' = IF line = <<>> THEN "done" ELSE "active"

\* One next() of the generator of SpyFile.__iter__: it calls readline(),
\* and dies of its exception, returns on an empty line or yields the line.
SpyIterNext ==
  /\ iter \in {"none", "active"}
  /\ ~srcClosed
  /\ LET line == ReadLineText(fileobj, -1)
     IN /\ SpyCall("readline", -1, line)
        /\ Mirror(line)
        /\ IF outcome' = "raised"
           THEN iter' = "failed" /\ yields' = yields
           ELSE IF line = <<>>
           THEN iter' = "done" /\ yields' = yields
           ELSE iter' = "active" /\ yields' = Append(yields, line)

\* list(self): the loop of __iter__ run until it raises or returns.  st is
\* [fileobj, buf, current_size, sink, yields, got, raised].
RECURSIVE readlines(_)
readlines(st) ==
  LET line == ReadLineText(st.fileobj, -1)
      size == AddSize(st.current_size, line)
  IN UNION {
       LET s1 == [st EXCEPT !.fileobj = Advance(st.fileobj, line),
                            !.buf = BufWrite(st.buf, line),
                            !.current_size = size,
                            !.sink = snk,
                            !.got = line]
       IN IF check_size(max_size, size) THEN {[s1 EXCEPT !.raised = TRUE]}
          ELSE IF line = <<>> THEN {s1}
          ELSE readlines([s1 EXCEPT !.yields = Append(st.yields, line)])
       : snk \in SinkWrites(st.sink, line)}

\* SpyFile.readlines() on an open source.
SpyReadlines ==
  /\ ~srcClosed
  /\ \E st \in readlines([fileobj |-> fileobj, buf |-> buf,
                          current_size |-> current_size, sink |-> sink,
                          yields |-> yields, got |-> <<>>,
                          raised |-> FALSE]) :
       LET list == SubSeq(st.yields, Len(yields) + 1, Len(st.yields))
       IN /\ fileobj' = st.fileobj
          /\ buf' = st.buf
          /\ current_size' = st.current_size
          /\ sink' = st.sink
          /\ yields' = st.yields
          /\ got' = st.got
          /\ outcome' = IF st.raised THEN "raised" ELSE "returned"
          /\ ret' = IF st.raised THEN <<>> ELSE <<list>>
          /\ returned' = IF st.raised THEN returned
                         ELSE returned \o Concat(list)
          /\ everRaised' = (everRaised \/ st.raised)
  /\ op' = "readlines"
  /\ req' = -1
  /\ swapped' = "none"
  /\ srcFailed' = FALSE
  /\ UNCHANGED <<max_size, srcClosed, detached, swaps, iter>>
  /\ UNCHANGED <<memVars, itVars>>

\* The source "hello\nworld\n".
HelloWorld ==
  <<"h", "e", "l", "l", "o", "LF", "w", "o", "r", "l", "d", "LF">>

\* The rest of SpyFile.__init__ with spy = None: the sink is StringIO().
XInit ==
  /\ srcClosed = FALSE
  /\ sink = NewSink(0, "StringIO", 0)
  /\ detached = <<>>
  /\ swaps = 0
  /\ swapped = "none"
  /\ srcFailed = FALSE
  /\ yields = <<>>
  /\ iter = "none"

\* The rest of SpyFile.__init__ with an object given as spy, or none.
XNew ==
  /\ srcClosed = FALSE
  /\ sink \in NewSinks(0)
  /\ detached = <<>>
  /\ swaps = 0
  /\ swapped = "none"
  /\ srcFailed = FALSE
  /\ yields = <<>>
  /\ iter = "none"

\* --------------------------------------------------------------- fileiter
MaxAvail == 3      \* most bytes the stream of fileiter holds
MaxSize == 3       \* largest size argument of fileiter
MaxStep == 2       \* largest chunk_size argument of fileiter

\* A stream of n bytes.  The byte at offset i is written i, so that a byte
\* lost, repeated or out of place shows.
Stream(n, full) == [data |-> [i \in 1..n |-> i], pos |-> 0, full |-> full]

\* file.read(n) for n >= 1: at most n bytes, none only at the end of the
\* stream; exactly n when the stream is full and n bytes are left.
ItReads(f, n) ==
  IF f.full
  THEN {SubSeq(f.data, f.pos + 1, f.pos + Min(n, Len(f.data) - f.pos))}
  ELSE ReadTexts(f, n)

\* chunk_size bytes requested whatever is left of size.
request_chunk(size, done, chunk) == chunk

\* nbytes = min(size-completed, chunk_size)
request(size, done, chunk) == Min(size - done, chunk)

\* One next() of the generator fileiter returns: it resumes after the yield
\* (completed += len(content)), tests the loop condition, reads, and either
\* yields the content or returns.
ItNext ==
  /\ it_pc \in {"start", "yield"}
  /\ LET done == IF it_pc = "yield" THEN completed + Len(it_content)
                 ELSE completed
     IN /\ completed' = done
        /\ IF done < it_size
           THEN LET n == request(it_size, done, chunk_size)
                IN \E text \in ItReads(it_file, n) :
                     /\ nbytes' = n
                     /\ it_content' = text
                     /\ it_file' = Advance(it_file, text)
                     /\ IF text = <<>>
                        THEN it_pc' = "done" /\ yielded' = yielded
                        ELSE it_pc' = "yield" /\ yielded' = Append(yielded, text)
           ELSE /\ it_pc' = "done"
                /\ UNCHANGED <<nbytes, it_content, it_file, yielded>>
  /\ UNCHANGED <<it_size, chunk_size>>
  /\ UNCHANGED <<spyVars, memVars, xVars>>

\* The arguments of the examples: size 25 in chunks of 10 over a regular
\* file of 25 and of 17 bytes.
ItExamples ==
  {[avail |-> 25, size |-> 25, chunk |-> 10, full |-> TRUE],
   [avail |-> 17, size |-> 25, chunk |-> 10, full |-> TRUE]}

\* The calls explored: every small one, and the examples.
ItArgs ==
  [avail : 0..MaxAvail, size : 0..MaxSize, chunk : 1..MaxStep, full : BOOLEAN]
    \cup ItExamples

\* A call of fileiter(file, size, chunk_size) with chunk_size >= 1: the
\* generator has not run yet.
ItInit ==
  /\ \E e \in ItArgs :
       /\ it_file = Stream(e.avail, e.full)
       /\ it_size = e.size
       /\ chunk_size = e.chunk
  /\ completed = 0
  /\ it_content = <<>>
  /\ nbytes = 0
  /\ it_pc = "start"
  /\ yielded = <<>>

\* fileiter not called (the state of its variables in the other
\* specifications).
ItIdle ==
  /\ it_file = Stream(0, TRUE)
  /\ it_size = 0
  /\ chunk_size = 1
  /\ completed = 0
  /\ it_content = <<>>
  /\ nbytes = 0
  /\ it_pc = "start"
  /\ yielded = <<>>

\* ---------------------------------------------------------- specifications
\* A SpyFile under read and readline calls.
SpyNext == SpyRead \/ SpyReadline

SpyOnlyInit == SpyInit /\ XInit /\ MemIdle /\ ItIdle

SpecSpy == SpyOnlyInit /\ [][SpyNext]_vars

\* A MemFile under write and writelines calls only.
MemWNext == MemWriteOnly \/ MemWritelinesOnly

MemOnlyInit == MemInit /\ SpyIdle /\ XInit /\ ItIdle

SpecMemW == MemOnlyInit /\ [][MemWNext]_vars

\* A MemFile under all its operations.
MemNext ==
  MemWrite \/ MemWritelines \/ MemSeek \/ MemRead \/ MemTell \/ MemClose

SpecMem == MemOnlyInit /\ [][MemNext]_vars

\* fileiter driven to its end: the consumer keeps asking for the next chunk.
ItOnlyInit == ItInit /\ SpyIdle /\ XInit /\ MemIdle

SpecIter == ItOnlyInit /\ [][ItNext]_vars /\ WF_vars(ItNext)

\* A SpyFile with any sink, under read, readline, close and change_spy,
\* over a source that may fail.
SpyObjNext == SpyRead \/ SpyReadline \/ SpyFails \/ SpyClose \/ SpyChangeSpy

SpyObjInit ==
  SpyNew(SeqsUpTo({"a"}, MaxObjSrc), MaxObjLimit)
    /\ XNew /\ MemIdle /\ ItIdle

SpecSpyObj == SpyObjInit /\ [][SpyObjNext]_vars

\* A SpyFile that is only iterated over, or asked for readlines().
SpyLinesNext == SpyIterNext \/ SpyReadlines

SpyLinesInit ==
  SpyNew(SeqsUpTo(SrcBytes, MaxSrc) \cup {HelloWorld}, MaxLimit)
    /\ XInit /\ MemIdle /\ ItIdle

SpecSpyLines == SpyLinesInit /\ [][SpyLinesNext]_vars

\* A SpyFile under read, readline, iteration and readlines.
SpyMixNext == SpyRead \/ SpyReadline \/ SpyIterNext \/ SpyReadlines

SpecSpyMix == SpyOnlyInit /\ [][SpyMixNext]_vars

\* ------------------------------------------------------- claims on SpyFile
\* The suffix of s of length n (all of s when it is shorter).
Suffix(s, n) == IF n >= Len(s) THEN s ELSE SubSeq(s, Len(s) - n + 1, Len(s))

\* The part of the source consumed so far.
Consumed == SubSeq(fileobj.data, 1, fileobj.pos)

\* The last call asked for at least one byte (or gave no size) and got none:
\* the source is at its end.
ReadReturnedEmptyAtEnd == op # "none" /\ req # 0 /\ got = <<>>

\* C1: with no max_size, after every read/readline call the sink content, the
\* concatenation of the returned values and the consumed prefix of the source
\* are the same byte string, and no call raises; once a call that asked for
\* bytes comes back empty, that string is the whole source.
C1_ReadThroughLossless ==
  max_size = <<>> =>
    /\ buf = returned
    /\ returned = Consumed
    /\ outcome # "raised"
    /\ (op # "none" => ret = <<got>>)
    /\ (ReadReturnedEmptyAtEnd => returned = fileobj.data /\ buf = fileobj.data)

C1_Witness ==
  /\ max_size = <<>>
  /\ ReadReturnedEmptyAtEnd
  /\ Len(fileobj.data) >= 2
  /\ \E i \in 1..Len(buf) : buf[i] # buf[1]
  /\ buf = fileobj.data

\* C2: with an integer max_size M >= 1, a call raises SizeLimitExceeded
\* exactly when current_size is greater than M after it, so no call raises
\* while current_size <= M (current_size = M included), the first call that
\* takes current_size past M raises, and a source of at most M bytes never
\* raises.
C2_LimitStrictlyGreater ==
  (max_size # <<>> /\ max_size[1] >= 1) =>
    /\ (op # "none" => (outcome = "raised" <=> current_size > max_size[1]))
    /\ (everRaised <=> current_size > max_size[1])
    /\ (Len(fileobj.data) <= max_size[1] => ~everRaised)

C2_Witness ==
  /\ max_size # <<>> /\ max_size[1] >= 1
  /\ outcome = "raised"
  /\ current_size = max_size[1] + 1
  /\ current_size - Len(got) = max_size[1]

\* The last call is the one that first took current_size past max_size.
TrippedLimit ==
  /\ outcome = "raised"
  /\ current_size - Len(got) <= max_size[1]

\* C3 as stated: the call that first exceeds max_size still hands its bytes
\* to the caller.
C3_TriggeringCallReturnsBytes == TrippedLimit => ret = <<got>>

\* C3 as amended: the call that first exceeds max_size raises instead of
\* returning, so the caller receives nothing from it; the bytes it obtained
\* are non-empty, are exactly the bytes consumed from the source by the call,
\* and sit in full at the end of the sink.
C3_TriggeringCallRaisesBytesKept ==
  TrippedLimit =>
    /\ ret = <<>>
    /\ got # <<>>
    /\ got = Suffix(Consumed, Len(got))
    /\ got = Suffix(buf, Len(got))
    /\ returned = SubSeq(buf, 1, Len(buf) - Len(got))

C3_Witness ==
  /\ TrippedLimit
  /\ Len(got) = 2
  /\ returned # <<>>

\* C4: in the state where SizeLimitExceeded is observed, the bytes of the
\* failing call are already in the sink and in current_size: the sink holds
\* everything consumed from the source so far.
C4_RecordedBeforeFailure ==
  outcome = "raised" =>
    /\ buf = Consumed
    /\ current_size = Len(buf)
    /\ current_size = fileobj.pos

C4_Witness ==
  /\ outcome = "raised"
  /\ op = "readline"
  /\ got # <<>>
  /\ buf = fileobj.data

\* C5 as stated: current_size is the total length of the chunks returned to
\* callers.
C5_SizeIsReturnedLength == current_size = Len(returned)

\* C5 as amended: current_size never decreases and is the total length of
\* the chunks obtained from the source by read/readline calls so far; it is
\* the total length of the chunks returned to callers as long as no call has
\* raised SizeLimitExceeded (a call that raises counts its bytes and returns
\* none).
C5_SizeIsObtainedLength ==
  /\ [](/\ current_size = fileobj.pos
        /\ (~everRaised => current_size = Len(returned))
        /\ current_size >= Len(returned))
  /\ [][current_size' >= current_size]_vars

C5_Witness ==
  /\ everRaised
  /\ current_size > Len(returned)
  /\ returned # <<>>

\* ------------------------------------------------------- claims on MemFile
\* The results of reading the active backing back from position 0:
\* seek(0), then read().
ReadBacks(f) == {r.data : r \in StreamReads(StreamSeek(f, 0), -1)}

\* C6: under write/writelines calls only, the MemFile is in memory exactly
\* while the total length written is at most maxsize; it has switched to disk
\* once, in the first write whose data took the total past maxsize, and what
\* was copied to disk is the content written before that write, without the
\* data of that write (nothing, when the first write alone is longer than
\* maxsize).
C6_SwitchOnFirstExcess ==
  /\ in_memory(m_fileobj) <=> Len(written) <= maxsize
  /\ in_memory(m_fileobj) => switches = 0 /\ copied = <<>> /\ trigger = <<>>
  /\ ~in_memory(m_fileobj) =>
       /\ switches = 1
       /\ Len(copied) = 1 /\ Len(trigger) = 1
       /\ Len(copied[1]) <= maxsize
       /\ Len(copied[1]) + Len(trigger[1]) > maxsize
       /\ copied[1] \o trigger[1]
            = SubSeq(written, 1, Len(copied[1]) + Len(trigger[1]))

C6_Witness ==
  /\ ~in_memory(m_fileobj)
  /\ maxsize >= 1
  /\ copied = << <<>> >>
  /\ Len(trigger[1]) > maxsize
  /\ written = trigger[1]

\* C7: under write/writelines calls only, reading the active backing back
\* from position 0 gives the concatenation of all chunks written, in order,
\* in memory and on disk, wherever the switch fell.
C7_ReadBackIsWritten ==
  /\ ReadBacks(m_fileobj) = {written}
  /\ m_fileobj.value = written
  /\ m_fileobj.pos = Len(written)

C7_Witness ==
  /\ ~in_memory(m_fileobj)
  /\ copied # << <<>> >>
  /\ Len(copied[1]) < maxsize
  /\ Len(copied[1]) + Len(trigger[1]) > maxsize
  /\ \E i \in 1..Len(written) : written[i] # written[1]

\* C8: under all operations, a MemFile that is on disk stays on disk and
\* _switch_to_disk is not executed again: it is executed at most once.
C8_SwitchAtMostOnce ==
  /\ [](switches <= 1)
  /\ [](in_memory(m_fileobj) <=> switches = 0)
  /\ [][~in_memory(m_fileobj) =>
          ~in_memory(m_fileobj') /\ switches' = switches]_vars

C8_Witness ==
  /\ ~in_memory(m_fileobj)
  /\ switches = 1
  /\ mop = "write"
  /\ Len(m_fileobj.value) > Len(copied[1]) + Len(trigger[1])

C10_CloseNeverFails == mop = "close" => closed = "ok"

\* ------------------------------------------------------- claims on fileiter
\* The lengths of the chunks yielded so far.
ChunkLens == [i \in 1..Len(yielded) |-> Len(yielded[i])]

\* The bytes the stream held when fileiter was called.
Avail == Len(it_file.data)

\* What holds of fileiter in every state.
ItInv ==
  /\ completed <= it_size
  /\ Len(Concat(yielded)) <= it_size
  /\ Concat(yielded) = SubSeq(it_file.data, 1, it_file.pos)
  /\ \A i \in 1..Len(yielded) :
       Len(yielded[i]) >= 1 /\ Len(yielded[i]) <= chunk_size
  /\ it_pc = "yield" =>
       /\ nbytes = Min(it_size - completed, chunk_size)
       /\ it_content = yielded[Len(yielded)]
       /\ Len(it_content) <= nbytes
  /\ it_pc = "done" =>
       /\ Concat(yielded) = SubSeq(it_file.data, 1, Min(it_size, Avail))
       /\ completed = it_size \/ (it_content = <<>> /\ it_file.pos = Avail)
       /\ it_file.full /\ it_size = 25 /\ chunk_size = 10 /\ Avail = 25
            => ChunkLens = <<10, 10, 5>>
       /\ it_file.full /\ it_size = 25 /\ chunk_size = 10 /\ Avail = 17
            => ChunkLens = <<10, 7>>

\* C11: fileiter over a stream of A bytes whose read(n) returns at most n
\* bytes, with chunk_size >= 1: each read asks for min(size - completed,
\* chunk_size) bytes; completed never exceeds size; every chunk is non-empty
\* and at most chunk_size long; every step that does not end the iteration
\* yields a chunk; the iteration ends, and when it has ended the chunks
\* concatenated are the first min(size, A) bytes of the stream and either
\* completed = size or the last read returned nothing at the end of the
\* stream (size 25 in chunks of 10 gives 10, 10, 5 from 25 bytes and 10, 7
\* from 17).
C11_FileiterChunks ==
  /\ []ItInv
  /\ [][it_pc' = "done" \/ Len(yielded') = Len(yielded) + 1]_vars
  /\ <>(it_pc = "done")

\* An iteration over a stream shorter than size, in more than one chunk, has
\* ended on an empty read.
C11_Witness ==
  /\ it_pc = "done"
  /\ Avail < it_size
  /\ Len(yielded) >= 2
  /\ completed < it_size
  /\ it_content = <<>>

\* ----------------------------------------- claims on SpyFile and its objects
\* C12: change_spy(newSink) calls flush and then close on the previous sink
\* and attaches newSink, whose content is not touched; it leaves
\* current_size, max_size and the source (position, open or closed) as they
\* were; every read/readline after it appends what it obtained to newSink
\* and leaves the sinks replaced before as change_spy left them.
C12_ChangeSpySwapsSink ==
  /\ [](swaps > 0 => sink.id = swaps)
  /\ [][op' = "change_spy" =>
          /\ Len(detached') = Len(detached) + 1
          /\ detached'[Len(detached')].id = sink.id
          /\ detached'[Len(detached')].calls = <<"flush", "close">>
          /\ SinkContent(detached'[Len(detached')]) = SinkContent(sink)
          /\ sink'.id = swaps'
          /\ SinkContent(sink') = <<>>
          /\ buf' = <<>>
          /\ current_size' = current_size
          /\ max_size' = max_size
          /\ fileobj' = fileobj
          /\ srcClosed' = srcClosed]_vars
  /\ [][op' \in {"read", "readline"} /\ outcome' # "failed" =>
          /\ sink'.id = sink.id
          /\ SinkContent(sink') = SinkContent(sink) \o got'
          /\ buf' = buf \o got'
          /\ detached' = detached]_vars

\* C13: close() closes the source and does nothing to the sink: the sink is
\* the same object, open, with the content it had, and current_size is what
\* it was; while the source is closed the sink of the SpyFile stays open and
\* holds the bytes mirrored to it.
C13_CloseLeavesSinkOpen ==
  /\ [][op' = "close" =>
          /\ srcClosed'
          /\ sink' = sink
          /\ buf' = buf
          /\ current_size' = current_size]_vars
  /\ [](srcClosed => ~sink.obj.fileobj.closed /\ SinkContent(sink) = buf)

\* A SpyFile closed after part of its source was mirrored.
C13_Witness ==
  /\ op = "close"
  /\ srcClosed
  /\ buf # <<>>
  /\ fileobj.pos < Len(fileobj.data)
  /\ SinkContent(sink) = buf

\* C20: a read/readline in which the source fails ends in that failure (it
\* neither returns nor raises SizeLimitExceeded), with the sink content,
\* current_size and the values returned so far as they were before the call;
\* a read/readline that succeeds after such a call appends what it obtained
\* to the sink as it was left and adds its length to current_size.
C20_SourceFailurePropagates ==
  /\ [][srcFailed' =>
          /\ outcome' = "failed"
          /\ ret' = <<>>
          /\ sink' = sink
          /\ buf' = buf
          /\ current_size' = current_size
          /\ returned' = returned
          /\ everRaised' = everRaised]_vars
  /\ [][srcFailed /\ op' \in {"read", "readline"} /\ ~srcFailed' =>
          /\ buf' = buf \o got'
          /\ SinkContent(sink') = SinkContent(sink) \o got'
          /\ current_size' = current_size + Len(got')]_vars

\* The source of a SpyFile has failed after part of it was mirrored, and has
\* more to give.
C20_Witness ==
  /\ srcFailed
  /\ outcome = "failed"
  /\ ~srcClosed
  /\ buf # <<>>
  /\ current_size = Len(buf)
  /\ fileobj.pos < Len(fileobj.data)

\* ------------------------------------------------ claims on line iteration
\* The lines of s, each with its terminator (the last may have none).
RECURSIVE Lines(_)
Lines(s) ==
  IF s = <<>> THEN <<>>
  ELSE <<SubSeq(s, 1, LineLen(s))>>
         \o Lines(SubSeq(s, LineLen(s) + 1, Len(s)))

\* An iteration to exhaustion has ended normally: the generator returned, or
\* readlines() returned its list.
Exhausted == iter = "done" \/ (op = "readlines" /\ outcome = "returned")

\* C14: when a SpyFile is only iterated over (by its generator or by
\* readlines()) and no call has raised SizeLimitExceeded, the lines yielded
\* are the lines of the part of the source consumed, in order and none
\* empty; each next() of the generator ends the iteration or consumes at
\* least one byte, so the iteration ends on a finite source; once the
\* iteration has ended normally the last readline obtained nothing, the
\* lines yielded are the lines of the whole source, the sink content is
\* their concatenation and current_size is its length (the source
\* "hello\nworld\n" gives "hello\n", "world\n", the sink "hello\nworld\n"
\* and current_size 12).
C14_IterationYieldsLines ==
  /\ [](~everRaised =>
          /\ yields = Lines(Consumed)
          /\ \A i \in 1..Len(yields) : yields[i] # <<>>
          /\ Exhausted =>
               /\ got = <<>>
               /\ yields = Lines(fileobj.data)
               /\ buf = Concat(yields)
               /\ buf = fileobj.data
               /\ SinkContent(sink) = buf
               /\ current_size = Len(buf)
               /\ fileobj.data = HelloWorld =>
                    /\ yields = <<SubSeq(HelloWorld, 1, 6),
                                  SubSeq(HelloWorld, 7, 12)>>
                    /\ current_size = 12)
  /\ [][op' = "readline" =>
          iter' \in {"done", "failed"} \/ fileobj'.pos > fileobj.pos]_vars

\* The generator has returned after yielding the two lines of
\* "hello\nworld\n".
C14_Witness ==
  /\ iter = "done"
  /\ ~everRaised
  /\ fileobj.data = HelloWorld
  /\ Len(yields) = 2
  /\ current_size = 12

\* ------------------------------------------------- claims on the size limit
\* C15: with max_size = 0 every read/readline that obtains at least one byte
\* makes current_size positive and raises SizeLimitExceeded.
C15_ZeroLimitIsSet ==
  [][max_size = <<0>> /\ op' \in {"read", "readline"} /\ got' # <<>> =>
       current_size' > 0 /\ outcome' = "raised"]_vars

\* C19: once a call has raised SizeLimitExceeded, every later read, readline
\* or readlines raises it too, also when it obtains nothing, having consumed
\* what it obtained from the source, appended it to the sink and counted it;
\* and an iteration to exhaustion over a source longer than max_size does
\* not end normally.
C19_LimitFailureSticky ==
  /\ [][everRaised /\ op' \in {"read", "readline", "readlines"} =>
          /\ outcome' = "raised"
          /\ fileobj'.pos = fileobj.pos + Len(got')
          /\ buf' = buf \o got'
          /\ current_size' = current_size + Len(got')]_vars
  /\ [](max_size # <<>> /\ Len(fileobj.data) > max_size[1] => ~Exhausted)

\* ------------------------------------------- claims on MemFile under seek
\* The length of the data of the write that makes the step.
DataLen == Len(written') - Len(written)

\* An in-memory MemFile holds at most maxsize bytes.
InMemoryWithinMaxsize ==
  in_memory(m_fileobj) => Len(m_fileobj.value) <= maxsize

\* C16 as stated: a write switches to disk exactly when the MemFile is in
\* memory and the length of its content plus len(data) exceeds maxsize, and
\* an in-memory MemFile never holds more than maxsize bytes.
C16_SwitchOnContentLength ==
  /\ [][mop' = "write" =>
          (switches' = switches + 1
             <=> in_memory(m_fileobj)
                   /\ Len(m_fileobj.value) + DataLen > maxsize)]_vars
  /\ []InMemoryWithinMaxsize

\* C16: a write switches to disk exactly when the MemFile is in memory and
\* tell() + len(data) exceeds maxsize, wherever seek has put the position;
\* an in-memory MemFile never holds more than maxsize bytes.
C16_SwitchOnPosition ==
  /\ [][mop' = "write" =>
          (switches' = switches + 1
             <=> in_memory(m_fileobj)
                   /\ m_fileobj.pos + DataLen > maxsize)]_vars
  /\ []InMemoryWithinMaxsize

\* A write after a seek back has left the MemFile in memory although more
\* than maxsize bytes were written to it in all.
C16_Witness ==
  /\ mop = "write"
  /\ in_memory(m_fileobj)
  /\ Len(written) > maxsize
  /\ switches = 0

\* C17 as stated: write("") on an in-memory MemFile leaves it in memory with
\* its content unchanged.
C17_EmptyWriteChangesNothing ==
  [][mop' = "write" /\ written' = written /\ in_memory(m_fileobj) =>
       /\ in_memory(m_fileobj')
       /\ m_fileobj'.value = m_fileobj.value]_vars

\* C17: write("") on an in-memory MemFile leaves it in memory exactly when
\* tell() <= maxsize; no byte of the content is changed or lost, and the
\* content grows only when it stays in memory with tell() past its end: by
\* zero bytes up to tell().
C17_EmptyWriteByPosition ==
  [][mop' = "write" /\ written' = written /\ in_memory(m_fileobj) =>
       /\ in_memory(m_fileobj') <=> m_fileobj.pos <= maxsize
       /\ m_fileobj'.value =
            IF in_memory(m_fileobj') /\ m_fileobj.pos > Len(m_fileobj.value)
            THEN m_fileobj.value \o
                   [i \in 1..(m_fileobj.pos - Len(m_fileobj.value)) |-> "NUL"]
            ELSE m_fileobj.value]_vars

\* A write("") after a seek past the end has left the MemFile in memory
\* with a zero byte as its content.
C17_Witness ==
  /\ mop = "write"
  /\ written = <<>>
  /\ in_memory(m_fileobj)
  /\ m_fileobj.value = <<"NUL">>

\* C18: after close() has returned on a disk-backed MemFile, the temporary
\* file object is closed.
C18_CloseReleasesHandle ==
  mop = "close" /\ closed = "ok" /\ ~in_memory(m_fileobj) => m_fileobj.closed

====
